---- MODULE Spec2Model ----
(***************************************************************************)
(* Model of incremental_archive.py: one run of main() over the working     *)
(* directory.  Times are counted in clock ticks (TicksPerSec ticks make a  *)
(* second): os.path.getmtime() and time.time() return floats, the History  *)
(* holds whole seconds (calendar.timegm(), int(time.time())).              *)
(***************************************************************************)
EXTENDS Integers, Sequences, FiniteSets, TLC

\* ---------------------------------------------------------------- bounds
TicksPerSec == 2        \* resolution of the float clock
MaxTicks == 2           \* how often the clock advances during a run
MaxMods == 2            \* external modifications during a run (SpecRace)

\* ------------------------------------------------------------- constants
Never == -1             \* get_last_archivized_time: watermark of an unknown directory
SecPerMin == 60         \* the seconds field of '%Y-%m-%d %H:%M:%S GMT'

VCNames == {"CVS", ".svn"}

\* Modification times (ticks) the files of a model run carry: the epoch,
\* exactly one second, and one tick after one second.
MTimes == {0, TicksPerSec, TicksPerSec + 1}
\* Watermarks (seconds) a metadata file of a model run stores.
Watermarks == {-1, 0, 1}
\* The clock (ticks) when the run starts.
StartTimes == {2 * TicksPerSec, 2 * TicksPerSec + 1}

VARIABLES
    metaFile,    \* archive-history.xml on disk
    cwd,         \* os.listdir('.') in listing order
    fs,          \* the subdirectories of '.': name -> directory tree
    archives,    \* the z-backup-<name>.tar.gz files: archive name -> file
    now,         \* the clock, in ticks
    pc,          \* where main() is
    history,     \* the in-memory History dict
    sub_dirs,    \* update_archives: the list being iterated
    idx,         \* update_archives: position in sub_dirs
    isModified,  \* try_archive: what is_modified_after returned
    tarPos,      \* create_archive: entries tarPack.add has written so far
    log          \* what the run did: observation only, but for runStart, which bounds the clock

vars == <<metaFile, cwd, fs, archives, now, pc, history, sub_dirs, idx,
          isModified, tarPos, log>>

\* ------------------------------------------------------------ data model
None == [tag |-> "None", val |-> 0]
Float(m) == [tag |-> "float", val |-> m]

\* Python truth value of what is_modified_after returns: None and 0.0 are false.
Truthy(r) == r.tag = "float" /\ r.val # 0

File(n, m) == [name |-> n, mtime |-> m, ver |-> 0]
Dir(n, m, fl, dl) == [name |-> n, mtime |-> m, files |-> fl, dirs |-> dl]

NoArchive == [exists |-> FALSE, closed |-> FALSE, run |-> 0, entries |-> <<>>]
OldArchive == [exists |-> TRUE, closed |-> TRUE, run |-> 0, entries |-> <<>>]

RECURSIVE SetToSeq(_)
SetToSeq(S) ==
    IF S = {} THEN <<>>
    ELSE LET x == CHOOSE y \in S : TRUE IN <<x>> \o SetToSeq(S \ {x})

\* ------------------------------------------------- History Store: format
\* sec_to_str_time with time.localtime (one hour east of GMT) for time.gmtime.
sec_to_str_time_local(secnum) ==
    [kind |-> "time", min |-> (secnum + 3600) \div 60, sec |-> (secnum + 3600) % 60]

\* time.strftime('%Y-%m-%d %H:%M:%S GMT', time.gmtime(secnum)): the text is
\* kept as its fields, the seconds field and everything above it.
sec_to_str_time(secnum) ==
    [kind |-> "time", min |-> secnum \div SecPerMin, sec |-> secnum % SecPerMin]

MissingAttr == [kind |-> "missing", min |-> 0, sec |-> 0]
BadAttr == [kind |-> "bad", min |-> 0, sec |-> 0]

\* calendar.timegm(time.strptime(s, '%Y-%m-%d %H:%M:%S GMT'))
timegm_strptime(s) == s.min * SecPerMin + s.sec

DirNode(n, w) == [name |-> n, lastArchivized |-> sec_to_str_time(w)]

MetaAbsent == [state |-> "absent", roots |-> 0, version |-> "", nodes |-> <<>>]
MetaOk(nodes) == [state |-> "ok", roots |-> 1, version |-> "1", nodes |-> nodes]

\* assert_dir_name, get_last_archivized: what makes one <directory> node invalid
NodeInvalid(node) ==
    \/ node.name = ""
    \/ node.lastArchivized.kind # "time"

\* parse_dir_node over the nodes in document order: history[dirName] = last_archivized
RECURSIVE parse_dir_nodes(_, _)
parse_dir_nodes(nodes, result) ==
    IF nodes = <<>> THEN result
    ELSE LET node == Head(nodes)
             rest == [n \in DOMAIN result \ {node.name} |-> result[n]]
         IN parse_dir_nodes(Tail(nodes),
                rest @@ (node.name :> timegm_strptime(node.lastArchivized)))

\* Whether parse_archive_history raises ExcInvalidFormat on this file.
ParseRaises(f) ==
    /\ f.state # "absent"
    /\ \/ f.state = "malformed"
       \/ f.roots # 1
       \/ f.version = ""
       \/ \E i \in DOMAIN f.nodes : NodeInvalid(f.nodes[i])

\* What parse_archive_history returns when it does not raise.
ParseResult(f) ==
    IF f.state = "absent" THEN <<>> ELSE parse_dir_nodes(f.nodes, <<>>)

\* save_history: one <directory> element per key of the dict
SerializeHistory(dirs) ==
    LET keys == SetToSeq(DOMAIN dirs)
    IN MetaOk([i \in DOMAIN keys |-> DirNode(keys[i], dirs[keys[i]])])

\* -------------------------------------------------------- Change Detector
\* first_file_hit with >= for >
RECURSIVE first_file_hit_ge(_, _)
first_file_hit_ge(files, max_mtime) ==
    IF files = <<>> THEN None
    ELSE IF Head(files).mtime >= max_mtime * TicksPerSec
         THEN Float(Head(files).mtime)
         ELSE first_file_hit_ge(Tail(files), max_mtime)

\* for fname in files: the first file newer than max_mtime (seconds)
RECURSIVE first_file_hit(_, _)
first_file_hit(files, max_mtime) ==
    IF files = <<>> THEN None
    ELSE IF Head(files).mtime > max_mtime * TicksPerSec
         THEN Float(Head(files).mtime)
         ELSE first_file_hit(Tail(files), max_mtime)

\* Prune without the second remove
PruneCVSOnly(dirs) == SelectSeq(dirs, LAMBDA e : e.name # "CVS")

\* if 'CVS' in dirs: dirs.remove('CVS'); if '.svn' in dirs: dirs.remove('.svn')
Prune(dirs) == SelectSeq(dirs, LAMBDA e : e.name # "CVS" /\ e.name # ".svn")

\* os.walk(directory), top down: the directory itself, its files, then the
\* directories left in dirs, each walked the same way; the first hit returns.
RECURSIVE walk(_, _)
RECURSIVE walk_dirs(_, _)
\* walk without the test of the directory's own modification time
walk_files_only(node, max_mtime) ==
    LET hit == first_file_hit(node.files, max_mtime)
    IN IF hit # None THEN hit
       ELSE walk_dirs(Prune(node.dirs), max_mtime)

walk(node, max_mtime) ==
    IF node.mtime > max_mtime * TicksPerSec THEN Float(node.mtime)
    ELSE LET hit == first_file_hit(node.files, max_mtime)
         IN IF hit # None THEN hit
            ELSE walk_dirs(Prune(node.dirs), max_mtime)

walk_dirs(dirs, max_mtime) ==
    IF dirs = <<>> THEN None
    ELSE LET hit == walk(Head(dirs), max_mtime)
         IN IF hit # None THEN hit ELSE walk_dirs(Tail(dirs), max_mtime)

is_modified_after(directory, max_mtime) == walk(fs[directory], max_mtime)

\* --------------------------------------------------------------- Archiver
get_archive_name(sub_dir) == "z-backup-" \o sub_dir \o ".tar.gz"

\* TarEntries as tarPack.add(sub_dir, recursive=False) would write them
TarEntriesNonRecursive(node, path) ==
    <<[path |-> path, kind |-> "dir", mtime |-> node.mtime, ver |-> 0]>>

\* tarPack.add(sub_dir): the directory, then everything in it, recursively and
\* unfiltered, under paths rooted at the subdirectory's name.
RECURSIVE TarEntries(_, _)
RECURSIVE TarDirs(_, _)
TarEntries(node, path) ==
    <<[path |-> path, kind |-> "dir", mtime |-> node.mtime, ver |-> 0]>>
    \o [i \in DOMAIN node.files |->
           [path |-> Append(path, node.files[i].name), kind |-> "file",
            mtime |-> node.files[i].mtime, ver |-> node.files[i].ver]]
    \o TarDirs(node.dirs, path)

TarDirs(dirs, path) ==
    IF dirs = <<>> THEN <<>>
    ELSE TarEntries(Head(dirs), Append(path, Head(dirs).name))
         \o TarDirs(Tail(dirs), path)

\* ----------------------------------------------------------- Orchestrator
get_last_archivized_time(sub_dir, hist) ==
    IF sub_dir \in DOMAIN hist THEN hist[sub_dir] ELSE Never

\* [curDir for curDir in os.listdir(directory) if os.path.isdir(...)]
get_sub_dirs == SelectSeq(cwd, LAMBDA n : n \in DOMAIN fs)

sub_dir == sub_dirs[idx]
archive_name == get_archive_name(sub_dir)

TryBlock == {"try", "tar_open", "tar_add", "tar_close", "stamp"}
Terminal == {"done", "aborted", "killed"}

\* ParseFail with the error swallowed like the IOError of a missing file.
ParseFailSwallowed ==
    /\ pc = "load"
    /\ ParseRaises(metaFile)
    /\ history' = <<>>
    /\ pc' = "list"
    /\ log' = [log EXCEPT !.parsed = "ok"]
    /\ UNCHANGED <<metaFile, cwd, fs, archives, now, sub_dirs, idx,
                   isModified, tarPos>>

\* history = parse_archive_history()
ParseFail ==
    /\ pc = "load"
    /\ ParseRaises(metaFile)
    /\ pc' = "aborted"
    /\ log' = [log EXCEPT !.parsed = "raised"]
    /\ UNCHANGED <<metaFile, cwd, fs, archives, now, history, sub_dirs, idx,
                   isModified, tarPos>>

ParseOk ==
    /\ pc = "load"
    /\ ~ParseRaises(metaFile)
    /\ history' = ParseResult(metaFile)
    /\ pc' = "list"
    /\ log' = [log EXCEPT !.parsed = "ok", !.loaded = ParseResult(metaFile)]
    /\ UNCHANGED <<metaFile, cwd, fs, archives, now, sub_dirs, idx,
                   isModified, tarPos>>

\* sub_dirs = get_sub_dirs(directory)
ListSubDirs ==
    /\ pc = "list"
    /\ sub_dirs' = get_sub_dirs
    /\ idx' = 1
    /\ pc' = "loop"
    /\ UNCHANGED <<metaFile, cwd, fs, archives, now, history, isModified,
                   tarPos, log>>

\* for sub_dir in sub_dirs: archive_name = get_archive_name(sub_dir)
LoopNext ==
    /\ pc = "loop"
    /\ idx <= Len(sub_dirs)
    /\ pc' = "try"
    /\ UNCHANGED <<metaFile, cwd, fs, archives, now, history, sub_dirs, idx,
                   isModified, tarPos, log>>

\* the for loop is exhausted: return history
LoopEnd ==
    /\ pc = "loop"
    /\ idx > Len(sub_dirs)
    /\ pc' = "save"
    /\ log' = [log EXCEPT !.exitReason = "normal"]
    /\ UNCHANGED <<metaFile, cwd, fs, archives, now, history, sub_dirs, idx,
                   isModified, tarPos>>

\* try_archive up to the test of isModified
try_archive ==
    /\ pc = "try"
    /\ LET last_archivized_time == get_last_archivized_time(sub_dir, history)
           hit == is_modified_after(sub_dir, last_archivized_time)
       IN /\ isModified' = hit
          /\ log' = [log EXCEPT !.examined = Append(@, sub_dir),
                                !.results = (sub_dir :> hit) @@ @,
                                !.called = IF Truthy(hit) THEN @ \cup {sub_dir} ELSE @]
          /\ IF Truthy(hit)
             THEN pc' = "tar_open" /\ idx' = idx
             ELSE pc' = "loop" /\ idx' = idx + 1
    /\ UNCHANGED <<metaFile, cwd, fs, archives, now, history, sub_dirs, tarPos>>

\* create_archive: tarPack = tarfile.open(archive_name, "w:gz")
TarOpen ==
    /\ pc = "tar_open"
    /\ archives' = (archive_name :>
                      [exists |-> TRUE, closed |-> FALSE, run |-> 1, entries |-> <<>>])
                   @@ archives
    /\ tarPos' = 0
    /\ pc' = "tar_add"
    /\ log' = [log EXCEPT !.tarStart = (sub_dir :> now) @@ @]
    /\ UNCHANGED <<metaFile, cwd, fs, now, history, sub_dirs, idx, isModified>>

\* create_archive: tarPack.add(sub_dir), one entry at a time
TarAdd ==
    /\ pc = "tar_add"
    /\ LET entries == TarEntries(fs[sub_dir], <<sub_dir>>)
       IN /\ archives' = [archives EXCEPT ![archive_name].entries =
                                              Append(@, entries[tarPos + 1])]
          /\ tarPos' = tarPos + 1
          /\ pc' = IF tarPos + 1 = Len(entries) THEN "tar_close" ELSE "tar_add"
    /\ UNCHANGED <<metaFile, cwd, fs, now, history, sub_dirs, idx, isModified, log>>

\* create_archive: tarPack.close()
TarClose ==
    /\ pc = "tar_close"
    /\ archives' = [archives EXCEPT ![archive_name].closed = TRUE]
    /\ pc' = "stamp"
    /\ log' = [log EXCEPT !.closed = @ \cup {sub_dir}]
    /\ UNCHANGED <<metaFile, cwd, fs, now, history, sub_dirs, idx, isModified, tarPos>>

\* Stamp with the modification time the detector returned for time.time()
StampLatestSeen ==
    /\ pc = "stamp"
    /\ history' = (sub_dir :> (isModified.val \div TicksPerSec)) @@ history
    /\ idx' = idx + 1
    /\ pc' = "loop"
    /\ log' = [log EXCEPT !.stamped = (sub_dir :> (isModified.val \div TicksPerSec)) @@ @]
    /\ UNCHANGED <<metaFile, cwd, fs, archives, now, sub_dirs, isModified, tarPos>>

\* create_archive: history[sub_dir] = int(time.time())
Stamp ==
    /\ pc = "stamp"
    /\ history' = (sub_dir :> (now \div TicksPerSec)) @@ history
    /\ idx' = idx + 1
    /\ pc' = "loop"
    /\ log' = [log EXCEPT !.stamped = (sub_dir :> (now \div TicksPerSec)) @@ @]
    /\ UNCHANGED <<metaFile, cwd, fs, archives, now, sub_dirs, isModified, tarPos>>

create_archive == TarOpen \/ TarAdd \/ TarClose \/ Stamp

\* OnException with continue in the place of break.
OnExceptionContinue ==
    /\ pc \in TryBlock \ {"stamp"}
    /\ pc' = "loop"
    /\ idx' = idx + 1
    /\ log' = [log EXCEPT !.exitReason = "error", !.exitDir = sub_dir,
                          !.examined = IF pc = "try" THEN Append(@, sub_dir) ELSE @]
    /\ UNCHANGED <<metaFile, cwd, fs, archives, now, history, sub_dirs,
                   isModified, tarPos>>

\* except Exception as ex: print ...; break.  The detector's stat calls and the
\* tar writer's open, add and close can raise; the stamp cannot.
OnException ==
    /\ pc \in TryBlock \ {"stamp"}
    /\ pc' = "save"
    /\ log' = [log EXCEPT !.exitReason = "error", !.exitDir = sub_dir,
                          !.examined = IF pc = "try" THEN Append(@, sub_dir) ELSE @]
    /\ UNCHANGED <<metaFile, cwd, fs, archives, now, history, sub_dirs, idx,
                   isModified, tarPos>>

\* OnKeyboardInterrupt with continue in the place of break.
OnKeyboardInterruptContinue ==
    /\ pc \in TryBlock
    /\ pc' = "loop"
    /\ idx' = idx + 1
    /\ log' = [log EXCEPT !.exitReason = "interrupt", !.exitDir = sub_dir,
                          !.examined = IF pc = "try" THEN Append(@, sub_dir) ELSE @]
    /\ UNCHANGED <<metaFile, cwd, fs, archives, now, history, sub_dirs,
                   isModified, tarPos>>

\* except KeyboardInterrupt: print ...; break.  An interrupt raised anywhere
\* inside try_archive.
OnKeyboardInterrupt ==
    /\ pc \in TryBlock
    /\ pc' = "save"
    /\ log' = [log EXCEPT !.exitReason = "interrupt", !.exitDir = sub_dir,
                          !.examined = IF pc = "try" THEN Append(@, sub_dir) ELSE @]
    /\ UNCHANGED <<metaFile, cwd, fs, archives, now, history, sub_dirs, idx,
                   isModified, tarPos>>

\* A KeyboardInterrupt raised outside the try statement has no handler: it
\* leaves update_archives and main.
UncaughtInterrupt ==
    /\ pc \in {"list", "loop", "save"}
    /\ pc' = "killed"
    /\ log' = [log EXCEPT !.killedAt = pc]
    /\ UNCHANGED <<metaFile, cwd, fs, archives, now, history, sub_dirs, idx,
                   isModified, tarPos>>

update_archives ==
    \/ ListSubDirs \/ LoopNext \/ LoopEnd \/ try_archive \/ create_archive
    \/ OnException \/ OnKeyboardInterrupt \/ UncaughtInterrupt

\* save_history(history)
save_history ==
    /\ pc = "save"
    /\ metaFile' = SerializeHistory(history)
    /\ pc' = "done"
    /\ log' = [log EXCEPT !.saves = @ + 1]
    /\ UNCHANGED <<cwd, fs, archives, now, history, sub_dirs, idx, isModified, tarPos>>

\* Time passes while the run is under way.
Tick ==
    /\ pc \notin Terminal
    /\ now < log.runStart + MaxTicks
    /\ now' = now + 1
    /\ UNCHANGED <<metaFile, cwd, fs, archives, pc, history, sub_dirs, idx,
                   isModified, tarPos, log>>

main == ParseFail \/ ParseOk \/ update_archives \/ save_history

Next == main \/ Tick

\* External process (SpecRace only): a file of a subdirectory is rewritten, which
\* sets its modification time to the current clock.
Modify ==
    /\ pc \notin Terminal
    /\ \E d \in DOMAIN fs : \E i \in DOMAIN fs[d].files :
          /\ fs[d].files[i].ver < MaxMods
          /\ fs' = [fs EXCEPT ![d].files[i] =
                        [@ EXCEPT !.mtime = now, !.ver = @ + 1]]
    /\ UNCHANGED <<metaFile, cwd, archives, now, pc, history, sub_dirs, idx,
                   isModified, tarPos, log>>

NextRace == Next \/ Modify

\* ---------------------------------------------------------- initial states
Damage(f, dmg) ==
    CASE dmg = "none" -> f
      [] dmg = "absent" -> MetaAbsent
      [] dmg = "malformed" -> [f EXCEPT !.state = "malformed"]
      [] dmg = "roots" -> [f EXCEPT !.roots = 2]
      [] dmg = "version" -> [f EXCEPT !.version = ""]
      [] dmg = "name" -> [f EXCEPT !.nodes[1].name = ""]
      [] dmg = "missing" -> [f EXCEPT !.nodes[1].lastArchivized = MissingAttr]
      [] dmg = "bad" -> [f EXCEPT !.nodes[1].lastArchivized = BadAttr]

Damages == {"absent", "malformed", "roots", "version", "name", "missing", "bad"}

\* The names a metadata file gives a watermark, when it parses.
KnownDirs(f) == IF ParseRaises(f) THEN {} ELSE DOMAIN ParseResult(f)

InitWith(cwd0, fs0, meta0, t0) ==
    /\ metaFile = meta0
    /\ cwd = cwd0
    /\ fs = fs0
    /\ archives = [an \in {get_archive_name(d) : d \in DOMAIN fs0} |->
                     IF \E d \in KnownDirs(meta0) : get_archive_name(d) = an
                     THEN OldArchive ELSE NoArchive]
    /\ now = t0
    /\ pc = "load"
    /\ history = <<>>
    /\ sub_dirs = <<>>
    /\ idx = 0
    /\ isModified = None
    /\ tarPos = 0
    /\ log = [parsed |-> "no", loaded |-> <<>>, runStart |-> t0,
              examined |-> <<>>, results |-> <<>>, called |-> {},
              closed |-> {}, tarStart |-> <<>>,
              stamped |-> <<>>,
              exitReason |-> "none", exitDir |-> "", killedAt |-> "",
              saves |-> 0, metaFile0 |-> meta0]

\* Spec: three subdirectories, each one directory with one file.
TopDirs == {"a", "b", "c"}
Orders ==
    {<<"a", "notes.txt", "b", "c">>, <<"a", "notes.txt", "c", "b">>,
     <<"b", "notes.txt", "a", "c">>, <<"b", "notes.txt", "c", "a">>,
     <<"c", "notes.txt", "a", "b">>, <<"c", "notes.txt", "b", "a">>}

SmallTree(d, mf) == Dir(d, TicksPerSec, <<File("f", mf)>>, <<>>)

\* The metadata file of an earlier run: watermark 1 for the listed
\* subdirectories, 0 for a directory that is gone since.
HistoryFile(known) ==
    LET keys == SetToSeq(known)
    IN MetaOk([i \in DOMAIN keys |->
                 DirNode(keys[i], IF keys[i] = "gone" THEN 0 ELSE 1)])

Init ==
    \E order \in Orders, mf \in [TopDirs -> {TicksPerSec, TicksPerSec + 1}],
       known \in SUBSET (TopDirs \cup {"gone"}),
       dmg \in Damages \cup {"none"}, t0 \in StartTimes :
        /\ dmg # "none" => order = <<"a", "notes.txt", "b", "c">> /\ known = TopDirs
        /\ InitWith(order, [d \in TopDirs |-> SmallTree(d, mf[d])],
                    Damage(HistoryFile(known), dmg), t0)

Spec == Init /\ [][Next]_vars

\* SpecOne: one subdirectory with nested directories, among them CVS and .svn.
RichTree(d, m) ==
    Dir(d, m[1], <<File("f", m[2])>>,
        <<Dir("CVS", m[3], <<File("g", m[3])>>, <<>>),
          Dir("s", m[4], <<>>,
              <<Dir(".svn", m[5], <<File("k", m[5])>>, <<>>)>>)>>)

InitOne ==
    \E d \in {"a", "CVS"}, m \in [1..5 -> MTimes], w \in Watermarks,
       dmg \in {"none", "absent", "bad"}, t0 \in StartTimes :
        /\ dmg = "bad" => w = 1 /\ d = "a"
        /\ dmg = "absent" => w = 1
        /\ InitWith(<<"notes.txt", d>>, (d :> RichTree(d, m)),
                    Damage(MetaOk(<<DirNode(d, w)>>), dmg), t0)

SpecOne == InitOne /\ [][Next]_vars

\* SpecRace: one subdirectory with two files, which another process rewrites
\* while the run is under way.
InitRace ==
    \E m \in [1..2 -> {TicksPerSec, TicksPerSec + 1}],
       dmg \in {"none", "absent", "bad"}, t0 \in StartTimes :
        InitWith(<<"a">>,
                 ("a" :> Dir("a", TicksPerSec, <<File("f", m[1]), File("h", m[2])>>, <<>>)),
                 Damage(MetaOk(<<DirNode("a", 1)>>), dmg), t0)

SpecRace == InitRace /\ [][NextRace]_vars

\* ================================================================= claims
\* The History a later run would load from the metadata file as it is now.
Persisted == ParseResult(metaFile)

\* The archive file of subdirectory d was not touched by this run.
Untouched(d) == archives[get_archive_name(d)].run = 0

\* Position of subdirectory d in the list update_archives iterates.
PosOf(d) == CHOOSE j \in DOMAIN sub_dirs : sub_dirs[j] = d

\* Every directory and file of a tree, as the set of their paths, kinds,
\* modification times and versions.
RECURSIVE AllEntries(_, _)
AllEntries(node, path) ==
    {[path |-> path, kind |-> "dir", mtime |-> node.mtime, ver |-> 0]}
    \cup {[path |-> Append(path, node.files[i].name), kind |-> "file",
           mtime |-> node.files[i].mtime, ver |-> node.files[i].ver] :
             i \in DOMAIN node.files}
    \cup UNION {AllEntries(node.dirs[i], Append(path, node.dirs[i].name)) :
                 i \in DOMAIN node.dirs}

\* Everything subdirectory d holds, itself included.
EntrySet(d) == AllEntries(fs[d], <<d>>)

\* The entry is a directory named CVS or .svn below the subdirectory, or lies
\* under one.
UnderVC(e) == \E i \in 2..Len(e.path) : e.path[i] \in VCNames

\* Reference set of inspected entries: the subdirectory, its directories that
\* are not under CVS/.svn, and the files in them.
Inspected(d) == {e \in EntrySet(d) : ~UnderVC(e)}

\* The watermark the run works with for subdirectory d.
WatermarkOf(d) == IF d \in DOMAIN log.loaded THEN log.loaded[d] ELSE Never

Newer(e, w) == e.mtime > w * TicksPerSec

\* try_archive has returned for subdirectory d.
Completed(d) == \E j \in DOMAIN sub_dirs : sub_dirs[j] = d /\ j < idx

\* The archive of d was written, completely, and closed in this run.
ArchivedNow(d) ==
    LET a == archives[get_archive_name(d)]
    IN a.exists /\ a.closed /\ a.run = 1 /\ {a.entries[i] : i \in DOMAIN a.entries} = EntrySet(d)

\* The entries the archive file of d holds.
ArchiveSet(d) ==
    LET a == archives[get_archive_name(d)].entries IN {a[i] : i \in DOMAIN a}

\* A modification time before every watermark.
Oldest == (Never - 1) * TicksPerSec

\* The tree with every modification time in it set back to Oldest.
RECURSIVE Aged(_)
Aged(node) ==
    [name |-> node.name, mtime |-> Oldest,
     files |-> [i \in DOMAIN node.files |-> [node.files[i] EXCEPT !.mtime = Oldest]],
     dirs |-> [i \in DOMAIN node.dirs |-> Aged(node.dirs[i])]]

\* The tree with everything set back that is a directory named CVS or .svn
\* below its root, or lies under one.
RECURSIVE AgedUnderVC(_)
AgedUnderVC(node) ==
    [node EXCEPT !.dirs = [i \in DOMAIN node.dirs |->
                             IF node.dirs[i].name \in VCNames
                             THEN Aged(node.dirs[i])
                             ELSE AgedUnderVC(node.dirs[i])]]

\* The same, and when the root itself is named CVS or .svn everything in it.
AgedUnderVCOrRoot(node) ==
    IF node.name \in VCNames
    THEN [Aged(node) EXCEPT !.mtime = node.mtime]
    ELSE AgedUnderVC(node)

C2_FailFastKeepsProgress ==
    log.exitReason = "error" =>
        /\ \A j \in DOMAIN sub_dirs :
              j > PosOf(log.exitDir) =>
                 /\ \A i \in DOMAIN log.examined : log.examined[i] # sub_dirs[j]
                 /\ Untouched(sub_dirs[j])
                 /\ sub_dirs[j] \notin DOMAIN log.stamped
        /\ pc = "done" =>
              \A a \in DOMAIN log.stamped :
                 a \in DOMAIN Persisted /\ Persisted[a] = log.stamped[a]

\* C2 witness: A archived, B failed, C listed after B, History saved.
C2_Witness ==
    /\ pc = "done"
    /\ log.exitReason = "error"
    /\ Len(sub_dirs) = 3
    /\ log.exitDir = sub_dirs[2]
    /\ sub_dirs[1] \in DOMAIN log.stamped
    /\ Persisted[sub_dirs[1]] * TicksPerSec > log.runStart

\* ---------------------------------------------------------------------- C6
\* C6: when parse_archive_history raises ExcInvalidFormat the run stops there:
\* nothing is examined, no archive is touched, save_history is not called and
\* the metadata file stays as it was.
C6_FormatErrorAborts ==
    ParseRaises(log.metaFile0) =>
        /\ pc \in {"load", "aborted"}
        /\ pc = "aborted" <=> log.parsed = "raised"
        /\ log.examined = <<>>
        /\ \A d \in DOMAIN fs : Untouched(d)
        /\ log.saves = 0
        /\ metaFile = log.metaFile0
        /\ history = <<>>

\* C6 witness: a run aborted on a lastArchivized value that does not parse.
C6_Witness ==
    /\ pc = "aborted"
    /\ log.parsed = "raised"
    /\ metaFile.state = "ok"
    /\ metaFile.nodes[1].lastArchivized = BadAttr

\* ---------------------------------------------------------------------- C9
\* C9: the run changes the History only at subdirectories whose archive was
\* written and closed in this run; every other loaded entry keeps its
\* timestamp in memory and in the metadata file written at the end, and no
\* loaded entry disappears.
C9_HistoryFrame ==
    /\ \A n \in DOMAIN log.loaded :
          /\ n \in DOMAIN history
          /\ n \notin log.closed => history[n] = log.loaded[n]
    /\ \A n \in DOMAIN history : n \in DOMAIN log.loaded \/ n \in log.closed
    /\ pc = "done" =>
          /\ \A n \in DOMAIN log.loaded :
                /\ n \in DOMAIN Persisted
                /\ n \notin log.closed => Persisted[n] = log.loaded[n]
          /\ \A n \in DOMAIN Persisted : n \in DOMAIN log.loaded \/ n \in log.closed
    /\ pc \in {"aborted", "killed"} => metaFile = log.metaFile0

\* C9 witness: a saved run in which one subdirectory was archived, one was
\* found unmodified, one failed, and the entry of a vanished directory is kept.
C9_Witness ==
    /\ pc = "done"
    /\ log.exitReason = "error"
    /\ Len(log.examined) = 3
    /\ log.closed = {log.examined[1]}
    /\ log.examined[1] \in DOMAIN log.loaded
    /\ Persisted[log.examined[1]] # log.loaded[log.examined[1]]
    /\ log.results[log.examined[2]] = None
    /\ "gone" \in DOMAIN Persisted

\* ---------------------------------------------------------------------- C3
\* C3 as stated: for a subdirectory absent from the loaded History the
\* sentinel is below every timestamp the detector sees, is_modified_after
\* reports a hit and create_archive is called.
C3_UnknownAlwaysArchived ==
    \A d \in DOMAIN log.results :
        d \notin DOMAIN log.loaded =>
            /\ \A e \in Inspected(d) : Never * TicksPerSec < e.mtime
            /\ log.results[d] # None
            /\ d \in log.called

\* ---------------------------------------------------------------------- C4
\* C4 as stated: at the end of a run every subdirectory with a stored
\* watermark w and a file newer than w has its archive written and a
\* persisted watermark not before the start of the run.
C4_NewerFileArchived ==
    pc = "done" =>
        \A d \in DOMAIN fs :
            (/\ d \in DOMAIN log.loaded
             /\ \E e \in EntrySet(d) : e.kind = "file" /\ Newer(e, log.loaded[d]))
            => /\ ArchivedNow(d)
               /\ d \in DOMAIN Persisted
               /\ Persisted[d] * TicksPerSec >= log.runStart

\* C4 amended: a subdirectory with stored watermark w for which try_archive
\* has returned, holding a file outside CVS/.svn newer than w and no inspected
\* entry newer than w whose modification time is exactly 0, has its archive
\* written and closed and maps in the History to a second not before the
\* whole second in which the run started; a run that reaches the end of
\* save_history persists that value.
C4_NewerInspectedFileArchived ==
    \A d \in DOMAIN fs :
        (/\ d \in DOMAIN log.loaded
         /\ Completed(d)
         /\ \E e \in Inspected(d) : e.kind = "file" /\ Newer(e, log.loaded[d])
         /\ \A e \in Inspected(d) : Newer(e, log.loaded[d]) => e.mtime # 0)
        => /\ ArchivedNow(d)
           /\ history[d] >= log.runStart \div TicksPerSec
           /\ pc = "done" => d \in DOMAIN Persisted /\ Persisted[d] = history[d]

\* C4 witness: a saved run that archived a subdirectory because of a file
\* newer than the stored watermark 1.
C4_Witness ==
    /\ pc = "done"
    /\ \E d \in DOMAIN fs :
          /\ d \in DOMAIN log.loaded /\ log.loaded[d] = 1
          /\ fs[d].mtime <= TicksPerSec
          /\ Newer(fs[d].files[1], 1)
          /\ ArchivedNow(d)
          /\ Persisted[d] > 1

\* ---------------------------------------------------------------------- C5
\* C5: a subdirectory with stored watermark w in which no inspected entry is
\* newer than w keeps its archive file as it was and its watermark w, in
\* memory and in the metadata file written at the end.
C5_UnmodifiedUntouched ==
    \A d \in DOMAIN fs :
        (/\ d \in DOMAIN log.loaded
         /\ \A e \in Inspected(d) : ~Newer(e, log.loaded[d]))
        => /\ archives[get_archive_name(d)] = OldArchive
           /\ d \notin log.called
           /\ d \in DOMAIN history /\ history[d] = log.loaded[d]
           /\ pc = "done" => d \in DOMAIN Persisted /\ Persisted[d] = log.loaded[d]

\* C5 witness: a saved run that examined a subdirectory whose inspected
\* entries are all at or before the watermark, one exactly at it, while an
\* entry under CVS/.svn is newer.
C5_Witness ==
    /\ pc = "done"
    /\ \E d \in DOMAIN log.results :
          /\ d \in DOMAIN log.loaded
          /\ log.results[d] = None
          /\ \E e \in Inspected(d) : e.mtime = log.loaded[d] * TicksPerSec
          /\ \E e \in EntrySet(d) : UnderVC(e) /\ Newer(e, log.loaded[d])

\* ---------------------------------------------------------------------- C8
\* C8: is_modified_after returns None exactly when no inspected entry is
\* newer than the watermark, and otherwise the modification time of an
\* inspected entry that is strictly newer than the watermark.
C8_DetectorMeetsReference ==
    \A d \in DOMAIN log.results :
        LET r == log.results[d]
            w == WatermarkOf(d)
        IN /\ r = None <=> \A e \in Inspected(d) : ~Newer(e, w)
           /\ r # None =>
                 /\ r.val > w * TicksPerSec
                 /\ \E e \in Inspected(d) : e.mtime = r.val

\* C8 witness: the hit is a nested directory; the subdirectory itself and its
\* file are exactly at the watermark, and entries under CVS are newer still.
C8_Witness ==
    \E d \in DOMAIN log.results :
        LET w == WatermarkOf(d)
        IN /\ d \in DOMAIN log.loaded
           /\ log.results[d] = Float(fs[d].dirs[2].mtime)
           /\ fs[d].mtime = w * TicksPerSec
           /\ fs[d].files[1].mtime = w * TicksPerSec
           /\ fs[d].dirs[1].mtime > fs[d].dirs[2].mtime

\* ---------------------------------------------------------------------- C7
\* C7 as stated: what is_modified_after reports does not depend on the
\* modification times of entries under a directory named CVS or .svn, the
\* processed subdirectory itself included when it carries such a name; and an
\* archive written for the subdirectory holds those entries.
C7_VCNeverDetectedAlwaysPacked ==
    \A d \in DOMAIN log.results :
        /\ log.results[d] = walk(AgedUnderVCOrRoot(fs[d]), WatermarkOf(d))
        /\ d \in log.closed => EntrySet(d) \subseteq ArchiveSet(d)

\* C7 amended: what is_modified_after reports does not depend on the
\* modification times of entries under a directory named CVS or .svn that
\* lies below the processed subdirectory (the name of the processed
\* subdirectory itself prunes nothing); and an archive written for the
\* subdirectory holds those entries.
C7_VCBelowRootNeverDetectedAlwaysPacked ==
    \A d \in DOMAIN log.results :
        /\ log.results[d] = walk(AgedUnderVC(fs[d]), WatermarkOf(d))
        /\ d \in log.closed =>
              \A e \in EntrySet(d) : UnderVC(e) => e \in ArchiveSet(d)

\* C7 witness: an archive written on a hit outside CVS/.svn which holds
\* entries under CVS/.svn that are newer than the hit.
C7_Witness ==
    \E d \in log.closed :
        /\ log.results[d] # None
        /\ \E e \in ArchiveSet(d) :
              /\ UnderVC(e) /\ e.kind = "file"
              /\ e.mtime > log.results[d].val
              /\ Newer(e, WatermarkOf(d))

\* --------------------------------------------------------------------- C10
\* Every file of a stamped subdirectory, outside CVS/.svn, whose modification
\* time is at or before the watermark is in the archive in that version.
CapturedUpToWatermark ==
    \A d \in DOMAIN log.stamped :
        \A e \in Inspected(d) :
            (e.kind = "file" /\ ~Newer(e, log.stamped[d])) => e \in ArchiveSet(d)

====
